---- MODULE Spec2Model ----
(***************************************************************************)
(* Model of `notion shim` (src/command/shim.rs): the shim directory, the   *)
(* create / delete / auto / list subcommands and the resolution of a shim  *)
(* name to the binary it dispatches to.                                    *)
(*                                                                         *)
(* Options are sequences of length at most one: <<>> is None, <<x>> is     *)
(* Some(x).  Paths are sequences of components.  Filesystem and catalog    *)
(* I/O is taken to work: the `?` exits for I/O errors are not modelled.    *)
(***************************************************************************)
EXTENDS Integers, Sequences, FiniteSets, TLC

VARIABLES
    shims,      \* names of the entries of the shim directory (OsString)
    live,       \* history: names whose latest successful lifecycle call was a create
    session,    \* project, platform pin, catalog and user default of the session
    call,       \* the subcommand run last and its arguments
    result,     \* what that run returned: Ok, an error, or a panic
    printed,    \* the lines `list` wrote to stdout
    resolved,   \* the ShimKind resolve_shim returned for each entry during `list`
    displayed   \* the per-item errors `auto` displayed

vars == <<shims, live, session, call, result, printed, resolved, displayed>>

\* Versions are 1.0.0 .. MaxVersion.0.0
MaxVersion == 2

Versions == 1..MaxVersion

None == <<>>

Some(x) == <<x>>

Option(S) == {None} \cup {Some(x) : x \in S}

\* semver::Version's Display
VersionStr(v) == ToString(v) \o ".0.0"

----------------------------------------------------------------------------
\* Names.  A directory entry name is an OsString; create and delete take a String.

ReservedNames == {"node", "npm", "yarn", "npx"}

ThirdPartyNames == {"a", "b", "c"}

\* every name that is valid unicode
StrNames == ReservedNames \cup ThirdPartyNames

\* an entry name that is not valid unicode (the byte 0xE9 after "caf")
InvalidUnicodeNames == {"caf\\xE9"}

OsNames == StrNames \cup InvalidUnicodeNames

\* the names `notion shim create` and `notion shim delete` are run with
NameArgs == ThirdPartyNames \cup {"node"}

\* OsStr::to_str: None unless the name is valid unicode
to_str(os) == IF os \in InvalidUnicodeNames THEN None ELSE Some(os)

\* OsStr::to_string_lossy: invalid sequences become U+FFFD
to_string_lossy(os) == IF os \in InvalidUnicodeNames THEN "caf\\uFFFD" ELSE os

----------------------------------------------------------------------------
\* The session: its collaborators from notion_core.

Projects ==
    { [root |-> "/p1", bins |-> <<"a", "b", "c">>],
      [root |-> "/p2", bins |-> <<"c", "yarn">>] }

\* the paths `notion shim auto <path>` is run with
PathArgs == {"/p1", "/p2", "/tmp"}

\* Project::for_dir: the project whose package declaration is at the path, if any
Project_for_dir(path) ==
    IF \E p \in Projects : p.root = path
    THEN Some(CHOOSE p \in Projects : p.root = path)
    ELSE None

\* the platform image of a project: node is required, yarn is optional
Image(node, yarn) == [node |-> node, node_str |-> VersionStr(node), yarn |-> yarn]

Images == {Image(n, y) : n \in Versions, y \in Option(Versions)}

Catalogs ==
    { [node |-> ns, yarn |-> [versions |-> ys, default |-> d]] :
        ns \in SUBSET Versions, ys \in SUBSET Versions, d \in Option(Versions) }

\* a platform pin comes from the project's manifest, so it needs a project
Sessions ==
    { s \in [project : Option(Projects), platform : Option(Images),
             catalog : Catalogs, user_node : Option(Versions)] :
        s.platform # None => s.project # None }

\* the environments the lifecycle commands are run in
EnvSessions ==
    { s \in Sessions :
        /\ s.catalog.node = {1}
        /\ s.catalog.yarn = [versions |-> {}, default |-> None]
        /\ s.platform \in {None, Some(Image(1, None))}
        /\ s.user_node = None }

\* Project::has_direct_bin
has_direct_bin(project, shim_name) ==
    \E i \in 1..Len(project.bins) : project.bins[i] = shim_name

\* Project::local_bin_dir
local_bin_dir(project) == <<project.root, "node_modules", ".bin">>

\* path::node_version_bin_dir
node_version_bin_dir(version_str) == <<"versions", "node", version_str, "bin">>

\* path::yarn_version_bin_dir
yarn_version_bin_dir(version_str) == <<"versions", "yarn", version_str, "bin">>

\* PathBuf::push of a file name
push(path, name) == Append(path, name)

RECURSIVE path_to_string(_)
\* Path::to_string_lossy of a path of valid unicode components
path_to_string(path) ==
    IF path = <<>> THEN ""
    ELSE IF Len(path) = 1 THEN path[1]
    ELSE path[1] \o "/" \o path_to_string(Tail(path))

----------------------------------------------------------------------------
\* enum ShimKind, as records of one shape: the path of Project and User, the
\* version of WillInstall.

ShimKind_Project(path) == [kind |-> "Project", path |-> path, version |-> None]

ShimKind_User(path) == [kind |-> "User", path |-> path, version |-> None]

ShimKind_System == [kind |-> "System", path |-> <<>>, version |-> None]

ShimKind_NotInstalled == [kind |-> "NotInstalled", path |-> <<>>, version |-> None]

ShimKind_WillInstall(version) ==
    [kind |-> "WillInstall", path |-> <<>>, version |-> Some(version)]

ShimKind_Unimplemented == [kind |-> "Unimplemented", path |-> <<>>, version |-> None]

\* impl Display for ShimKind
ShimKind_fmt(k) ==
    CASE k.kind = "Project" -> path_to_string(k.path)
      [] k.kind = "User" -> path_to_string(k.path)
      [] k.kind = "System" -> "[system]"
      [] k.kind = "NotInstalled" -> "[executable not installed!]"
      [] k.kind = "WillInstall" ->
            "[will install version " \o VersionStr(k.version[1]) \o "]"
      [] k.kind = "Unimplemented" -> "[shim not implemented!]"

\* A call of a fallible function returns a value or an error, or it panics.
Returned(v) == [status |-> "Ok", value |-> v]

Panicked == [status |-> "Panic", value |-> ShimKind_NotInstalled]

is_node_version_installed(version, s) == version \in s.catalog.node

\* the same, with the user default ahead of the project's pin
resolve_node_shims_user_first(s, shim_name) ==
    IF s.user_node # None
    THEN ShimKind_User(push(node_version_bin_dir(VersionStr(s.user_node[1])), shim_name))
    ELSE IF s.platform # None
    THEN LET image == s.platform[1] IN
         IF is_node_version_installed(image.node, s)
         THEN ShimKind_User(push(node_version_bin_dir(image.node_str), shim_name))
         ELSE ShimKind_WillInstall(image.node)
    ELSE ShimKind_System

resolve_node_shims(s, shim_name) ==
    IF s.platform # None
    THEN LET image == s.platform[1] IN
         IF is_node_version_installed(image.node, s)
         THEN ShimKind_User(push(node_version_bin_dir(image.node_str), shim_name))
         ELSE ShimKind_WillInstall(image.node)
    ELSE IF s.user_node # None
    THEN ShimKind_User(push(node_version_bin_dir(VersionStr(s.user_node[1])), shim_name))
    ELSE ShimKind_System

\* the same, falling back to the catalog's default when the pin names no yarn
resolve_yarn_shims_default_fallback(s, shim_name) ==
    IF s.platform # None /\ s.platform[1].yarn # None
    THEN LET version == s.platform[1].yarn[1] IN
         IF version \in s.catalog.yarn.versions
         THEN ShimKind_User(push(yarn_version_bin_dir(VersionStr(version)), shim_name))
         ELSE ShimKind_WillInstall(version)
    ELSE IF s.catalog.yarn.default # None
    THEN ShimKind_User(
            push(yarn_version_bin_dir(VersionStr(s.catalog.yarn.default[1])), shim_name))
    ELSE IF s.platform # None THEN ShimKind_NotInstalled
    ELSE ShimKind_System

resolve_yarn_shims(s, shim_name) ==
    IF s.platform # None
    THEN LET image == s.platform[1] IN
         IF image.yarn # None
         THEN LET version == image.yarn[1] IN
              IF version \in s.catalog.yarn.versions
              THEN ShimKind_User(
                      push(yarn_version_bin_dir(VersionStr(version)), shim_name))
              ELSE ShimKind_WillInstall(version)
         ELSE ShimKind_NotInstalled
    ELSE IF s.catalog.yarn.default # None
    THEN ShimKind_User(
            push(yarn_version_bin_dir(VersionStr(s.catalog.yarn.default[1])), shim_name))
    ELSE ShimKind_System

\* the same, treating npx as one of node's own executables
resolve_npx_shims_as_node(s, shim_name) == resolve_node_shims(s, shim_name)

resolve_npx_shims(s, shim_name) == ShimKind_Unimplemented

\* the same, looking an undeclared name up among the user's node executables
resolve_3p_shims_user_bin(s, shim_name) ==
    IF s.project # None /\ has_direct_bin(s.project[1], shim_name)
    THEN ShimKind_Project(push(local_bin_dir(s.project[1]), shim_name))
    ELSE IF s.user_node # None /\ is_node_version_installed(s.user_node[1], s)
    THEN ShimKind_User(push(node_version_bin_dir(VersionStr(s.user_node[1])), shim_name))
    ELSE ShimKind_NotInstalled

resolve_3p_shims(s, shim_name) ==
    IF s.project # None /\ has_direct_bin(s.project[1], shim_name)
    THEN ShimKind_Project(push(local_bin_dir(s.project[1]), shim_name))
    ELSE ShimKind_NotInstalled

resolve_shim(s, shim_name) ==
    LET name == to_str(shim_name) IN
    IF name = None THEN Panicked
    ELSE IF name[1] \in {"node", "npm"} THEN Returned(resolve_node_shims(s, shim_name))
    ELSE IF name[1] = "yarn" THEN Returned(resolve_yarn_shims(s, shim_name))
    ELSE IF name[1] = "npx" THEN Returned(resolve_npx_shims(s, shim_name))
    ELSE Returned(resolve_3p_shims(s, shim_name))

----------------------------------------------------------------------------
\* What a run of the command returns: Ok(()), a NotionFail error, or a panic.

Ok == [status |-> "Ok", type |-> "", code |-> "", detail |-> ""]

Panic == [status |-> "Panic", type |-> "", code |-> "", detail |-> ""]

AutoshimError ==
    [status |-> "Err", type |-> "AutoshimError", code |-> "UnknownError", detail |-> ""]

NotAPackageError(path) ==
    [status |-> "Err", type |-> "NotAPackageError", code |-> "ConfigurationError",
     detail |-> path]

ShimAlreadyExistsError(name) ==
    [status |-> "Err", type |-> "ShimAlreadyExistsError", code |-> "FileSystemError",
     detail |-> name]

ShimDoesntExistError(name) ==
    [status |-> "Err", type |-> "ShimDoesntExistError", code |-> "FileSystemError",
     detail |-> name]

\* enum Shim: the parsed subcommand.  The verbose flag of Create, Delete and Auto
\* is never read, so only List carries it here.
Shim(op, name, path, verbose) ==
    [op |-> op, name |-> name, path |-> path, verbose |-> verbose]

\* shim::create of notion_core: the entry is added unless it is there already
shim_create(dir, name) ==
    IF name \in dir THEN [res |-> "AlreadyExists", dir |-> dir]
    ELSE [res |-> "Created", dir |-> dir \cup {name}]

\* shim::delete of notion_core: the entry is removed if it is there
shim_delete(dir, name) ==
    IF name \in dir THEN [res |-> "Deleted", dir |-> dir \ {name}]
    ELSE [res |-> "DoesntExist", dir |-> dir]

RECURSIVE Project_autoshim(_, _, _)
\* Project::autoshim of notion_core: create a shim for each declared binary in
\* turn, collecting the failures and going on to the next binary
Project_autoshim(bins, dir, errors) ==
    IF bins = <<>> THEN [dir |-> dir, errors |-> errors]
    ELSE LET r == shim_create(dir, Head(bins)) IN
         Project_autoshim(Tail(bins), r.dir,
            IF r.res = "AlreadyExists"
            THEN Append(errors, ShimAlreadyExistsError(Head(bins)))
            ELSE errors)

\* the names a list of per-item failures is about
FailedNames(errors) == {errors[i].detail : i \in 1..Len(errors)}

\* the names of a sequence of binaries
BinNames(bins) == {bins[i] : i \in 1..Len(bins)}

----------------------------------------------------------------------------
\* The subcommands.

\* create that takes AlreadyExists for success
create_overwrites(shim_name) ==
    LET r == shim_create(shims, shim_name) IN
    /\ shims' = r.dir
    /\ result' = Ok
    /\ live' = live \cup {shim_name}
    /\ call' = Shim("create", shim_name, None, FALSE)
    /\ printed' = {} /\ resolved' = {} /\ displayed' = <<>>
    /\ UNCHANGED session

create(shim_name) ==
    LET r == shim_create(shims, shim_name) IN
    /\ shims' = r.dir
    /\ result' = IF r.res = "AlreadyExists" THEN ShimAlreadyExistsError(shim_name)
                 ELSE Ok
    /\ live' = IF r.res = "AlreadyExists" THEN live ELSE live \cup {shim_name}
    /\ call' = Shim("create", shim_name, None, FALSE)
    /\ printed' = {} /\ resolved' = {} /\ displayed' = <<>>
    /\ UNCHANGED session

delete(shim_name) ==
    LET r == shim_delete(shims, shim_name) IN
    /\ shims' = r.dir
    /\ result' = IF r.res = "DoesntExist" THEN ShimDoesntExistError(shim_name)
                 ELSE Ok
    /\ live' = IF r.res = "DoesntExist" THEN live ELSE live \ {shim_name}
    /\ call' = Shim("delete", shim_name, None, FALSE)
    /\ printed' = {} /\ resolved' = {} /\ displayed' = <<>>
    /\ UNCHANGED session

\* autoshim that takes the session's project when the path given is no project
autoshim_ambient_fallback(maybe_path) ==
    LET at_path == IF maybe_path # None THEN Project_for_dir(maybe_path[1]) ELSE None
        target == IF at_path # None THEN at_path ELSE session.project
        run == Project_autoshim(target[1].bins, shims, <<>>)
    IN
    /\ call' = Shim("auto", "", maybe_path, FALSE)
    /\ IF target = None
       THEN /\ result' = NotAPackageError(IF maybe_path # None THEN maybe_path[1] ELSE ".")
            /\ displayed' = <<>>
            /\ UNCHANGED <<shims, live>>
       ELSE /\ shims' = run.dir
            /\ live' = live \cup (BinNames(target[1].bins) \ FailedNames(run.errors))
            /\ displayed' = run.errors
            /\ result' = IF Len(run.errors) = 0 THEN Ok ELSE AutoshimError
    /\ printed' = {} /\ resolved' = {}
    /\ UNCHANGED session

\* autoshim that displays the failures and still returns Ok
autoshim_swallows_failures(maybe_path) ==
    LET target == IF maybe_path # None THEN Project_for_dir(maybe_path[1])
                  ELSE session.project
        run == Project_autoshim(target[1].bins, shims, <<>>)
    IN
    /\ call' = Shim("auto", "", maybe_path, FALSE)
    /\ IF target = None
       THEN /\ result' = NotAPackageError(IF maybe_path # None THEN maybe_path[1] ELSE ".")
            /\ displayed' = <<>>
            /\ UNCHANGED <<shims, live>>
       ELSE /\ shims' = run.dir
            /\ live' = live \cup (BinNames(target[1].bins) \ FailedNames(run.errors))
            /\ displayed' = run.errors
            /\ result' = Ok
    /\ printed' = {} /\ resolved' = {}
    /\ UNCHANGED session

autoshim(maybe_path) ==
    LET target == IF maybe_path # None THEN Project_for_dir(maybe_path[1])
                  ELSE session.project
        run == Project_autoshim(target[1].bins, shims, <<>>)
    IN
    /\ call' = Shim("auto", "", maybe_path, FALSE)
    /\ IF target = None
       THEN /\ result' = NotAPackageError(IF maybe_path # None THEN maybe_path[1] ELSE ".")
            /\ displayed' = <<>>
            /\ UNCHANGED <<shims, live>>
       ELSE /\ shims' = run.dir
            /\ live' = live \cup (BinNames(target[1].bins) \ FailedNames(run.errors))
            /\ displayed' = run.errors
            /\ result' = IF Len(run.errors) = 0 THEN Ok ELSE AutoshimError
    /\ printed' = {} /\ resolved' = {}
    /\ UNCHANGED session

\* print_file_info: the line printed for an entry and, when verbose, what
\* resolve_shim returned for it; a panic of resolve_shim prints nothing
print_file_info(file, s, verbose) ==
    IF verbose
    THEN LET shim_info == resolve_shim(s, file) IN
         IF shim_info.status = "Ok"
         THEN [status |-> "Ok",
               line |-> to_string_lossy(file) \o " -> " \o ShimKind_fmt(shim_info.value),
               name |-> file, info |-> Some(shim_info.value)]
         ELSE [status |-> shim_info.status, line |-> "", name |-> file, info |-> None]
    ELSE [status |-> "Ok", line |-> to_string_lossy(file), name |-> file, info |-> None]

\* the lines printed for a set of entries
Lines(files, s, verbose) ==
    {[name |-> to_string_lossy(f), line |-> print_file_info(f, s, verbose).line] :
        f \in files}

\* what resolve_shim returned for a set of entries
Resolutions(files, s, verbose) ==
    {[name |-> f, kind |-> print_file_info(f, s, verbose).info[1]] :
        f \in {g \in files : print_file_info(g, s, verbose).info # None}}

\* list that leaves the toolchain's own shims out
list_skips_toolchain(verbose) ==
    /\ call' = Shim("list", "", None, verbose)
    /\ result' = Ok
    /\ printed' = Lines(shims \ ReservedNames, session, verbose)
    /\ resolved' = Resolutions(shims \ ReservedNames, session, verbose)
    /\ displayed' = <<>>
    /\ UNCHANGED <<shims, live, session>>

\* read_dir yields the entries in no particular order: when an entry makes
\* print_file_info panic, any of the other entries may have been printed before it
list(verbose) ==
    LET failing == {f \in shims : print_file_info(f, session, verbose).status # "Ok"} IN
    /\ call' = Shim("list", "", None, verbose)
    /\ IF failing = {}
       THEN /\ result' = Ok
            /\ printed' = Lines(shims, session, verbose)
            /\ resolved' = Resolutions(shims, session, verbose)
       ELSE /\ result' = Panic
            /\ \E done \in SUBSET (shims \ failing) :
                  /\ printed' = Lines(done, session, verbose)
                  /\ resolved' = Resolutions(done, session, verbose)
    /\ displayed' = <<>>
    /\ UNCHANGED <<shims, live, session>>

\* the next run of the command finds another project, catalog or user default
new_session(s) ==
    /\ s # session
    /\ session' = s
    /\ call' = Shim("session", "", None, FALSE)
    /\ result' = Ok
    /\ printed' = {} /\ resolved' = {} /\ displayed' = <<>>
    /\ UNCHANGED <<shims, live>>

----------------------------------------------------------------------------
\* Specifications.

Idle == Shim("none", "", None, FALSE)

\* any shim directory, each entry on disk taken as created by an earlier run
Init ==
    /\ shims \in SUBSET (NameArgs \cup InvalidUnicodeNames)
    /\ live = shims
    /\ session \in EnvSessions
    /\ call = Idle
    /\ result = Ok
    /\ printed = {} /\ resolved = {} /\ displayed = <<>>

Next ==
    \/ \E shim_name \in NameArgs : create(shim_name)
    \/ \E shim_name \in NameArgs : delete(shim_name)
    \/ \E maybe_path \in Option(PathArgs) : autoshim(maybe_path)
    \/ \E verbose \in BOOLEAN : list(verbose)
    \/ \E s \in EnvSessions : new_session(s)

Spec == Init /\ [][Next]_vars

\* an empty shim directory: every entry comes from a create of this command
InitFresh ==
    /\ shims = {}
    /\ live = {}
    /\ session \in EnvSessions
    /\ call = Idle
    /\ result = Ok
    /\ printed = {} /\ resolved = {} /\ displayed = <<>>

SpecFresh == InitFresh /\ [][Next]_vars

\* resolution as a function: every session, a directory holding every name
InitResolve ==
    /\ shims = StrNames
    /\ live = shims
    /\ session \in Sessions
    /\ call = Idle
    /\ result = Ok
    /\ printed = {} /\ resolved = {} /\ displayed = <<>>

NextResolve == \E verbose \in BOOLEAN : list(verbose)

SpecResolve == InitResolve /\ [][NextResolve]_vars

----------------------------------------------------------------------------
\* Properties.

\* the root `auto` resolves: the project at the path given, else the session's
AutoRoot(maybe_path) ==
    IF maybe_path # None THEN Project_for_dir(maybe_path[1]) ELSE session.project

\* the resolutions of the last `list --verbose` for one name
ResolvedAs(name) == {r.kind : r \in {q \in resolved : q.name = name}}

\* the last call was a `list --verbose` of a directory holding the name
Listed(name) == call.op = "list" /\ call.verbose /\ name \in shims

\* C1: create(X) returns Ok iff no entry X existed and then adds it, and returns the
\* "already exists" FileSystemError naming X otherwise; delete(X) returns Ok iff entry
\* X existed and then removes it, and returns the "does not exist" FileSystemError
\* naming X otherwise; a failed call leaves the entries as they were.  So a create
\* right after a successful create of the same name fails, a delete right after it
\* succeeds, and a delete right after a successful delete of the same name fails.
CreateDeleteStrict ==
    [][ /\ call'.op = "create" =>
            IF call'.name \in shims
            THEN /\ result' = ShimAlreadyExistsError(call'.name)
                 /\ result'.code = "FileSystemError"
                 /\ shims' = shims
            ELSE /\ result' = Ok
                 /\ shims' = shims \cup {call'.name}
        /\ call'.op = "delete" =>
            IF call'.name \in shims
            THEN /\ result' = Ok
                 /\ shims' = shims \ {call'.name}
            ELSE /\ result' = ShimDoesntExistError(call'.name)
                 /\ result'.code = "FileSystemError"
                 /\ shims' = shims
        /\ (call.op = "create" /\ result = Ok /\ call'.name = call.name) =>
            /\ call'.op = "create" => result' = ShimAlreadyExistsError(call.name)
            /\ call'.op = "delete" => result' = Ok
        /\ (call.op = "delete" /\ result = Ok /\ call'.name = call.name) =>
            /\ call'.op = "delete" => result' = ShimDoesntExistError(call.name)
      ]_vars

\* a create has just failed on an entry that exists
CreateExistingWitness ==
    /\ call.op = "create"
    /\ call.name \in shims
    /\ result = ShimAlreadyExistsError(call.name)

\* C2: autoshim over a valid project declaring the binaries B, run on a directory
\* holding S, leaves the directory holding S \cup B, displays exactly one failure for
\* each name of B that was in S, and returns Ok iff it displayed none and the
\* aggregate AutoshimError otherwise.
AutoshimAggregates ==
    [][ (call'.op = "auto" /\ AutoRoot(call'.path) # None) =>
           LET B == BinNames(AutoRoot(call'.path)[1].bins) IN
           /\ shims' = shims \cup B
           /\ FailedNames(displayed') = B \cap shims
           /\ Len(displayed') = Cardinality(B \cap shims)
           /\ result' = IF B \cap shims = {} THEN Ok ELSE AutoshimError
           /\ (result' = Ok) <=> (displayed' = <<>>)
      ]_vars

\* autoshim over the project declaring a, b, c has failed on b alone
AutoshimPartialWitness ==
    /\ call.op = "auto"
    /\ call.path = Some("/p1")
    /\ result = AutoshimError
    /\ displayed = <<ShimAlreadyExistsError("b")>>
    /\ {"a", "b", "c"} \subseteq shims

\* C3: autoshim returns the ConfigurationError "not a package" and leaves the shim
\* directory as it was when the path given is no project (whatever the session's
\* project, and carrying the path) and when no path is given and the session has no
\* project (carrying ".").
AutoshimNotAPackage ==
    [][ /\ (/\ call'.op = "auto"
            /\ call'.path # None
            /\ Project_for_dir(call'.path[1]) = None) =>
               /\ result' = NotAPackageError(call'.path[1])
               /\ result'.code = "ConfigurationError"
               /\ shims' = shims
               /\ displayed' = <<>>
        /\ (/\ call'.op = "auto"
            /\ call'.path = None
            /\ session.project = None) =>
               /\ result' = NotAPackageError(".")
               /\ result'.code = "ConfigurationError"
               /\ shims' = shims
               /\ displayed' = <<>>
      ]_vars

\* autoshim was given a path that is no project while the session has a project
AutoshimBadPathWitness ==
    /\ call.op = "auto"
    /\ call.path = Some("/tmp")
    /\ session.project # None
    /\ result = NotAPackageError("/tmp")

\* C4: with the project pinning node to V, node and npm resolve to a path in V's
\* binary directory ending in the shim name when V is installed, and to
\* WillInstall(V), which carries no path, when it is not; whatever the user default.
NodePinOutranksUserDefault ==
    \A name \in {"node", "npm"} :
        (Listed(name) /\ session.platform # None) =>
            LET V == session.platform[1].node IN
            /\ ResolvedAs(name) # {}
            /\ \A k \in ResolvedAs(name) :
                  IF V \in session.catalog.node
                  THEN k.path = <<"versions", "node", VersionStr(V), "bin", name>>
                  ELSE k = ShimKind_WillInstall(V) /\ k.path = <<>>

\* npm was resolved under a pin that is installed and another, installed, user default
NodePinWitness ==
    /\ Listed("npm")
    /\ session.platform # None
    /\ session.user_node # None
    /\ session.user_node[1] # session.platform[1].node
    /\ {session.user_node[1], session.platform[1].node} \subseteq session.catalog.node
    /\ ResolvedAs("npm") # {}

\* C5: with a platform pin that names no yarn version, yarn resolves to NotInstalled
\* whatever the catalog holds; the System fallback and the catalog's default yarn
\* are reached only without a platform pin.
YarnOmittedIsNotInstalled ==
    Listed("yarn") =>
        /\ ResolvedAs("yarn") # {}
        /\ \A k \in ResolvedAs("yarn") :
              /\ (session.platform # None /\ session.platform[1].yarn = None) =>
                    k = ShimKind_NotInstalled
              /\ k.kind = "System" => session.platform = None
              /\ (session.platform # None /\ k.kind = "User") =>
                    /\ session.platform[1].yarn # None
                    /\ k.path = <<"versions", "yarn",
                                  VersionStr(session.platform[1].yarn[1]), "bin", "yarn">>

\* yarn was resolved under a pin without yarn while the catalog has a default yarn
\* that is installed
YarnOmittedWitness ==
    /\ Listed("yarn")
    /\ session.platform # None
    /\ session.platform[1].yarn = None
    /\ session.catalog.yarn.default # None
    /\ session.catalog.yarn.default[1] \in session.catalog.yarn.versions
    /\ ResolvedAs("yarn") = {ShimKind_NotInstalled}

\* what the project's declarations alone give a third-party name
ThirdPartyTarget(project, name) ==
    IF project # None /\ name \in BinNames(project[1].bins)
    THEN [kind |-> "Project", path |-> <<project[1].root, "node_modules", ".bin", name>>,
          version |-> None]
    ELSE ShimKind_NotInstalled

\* C6: a name other than node, npm, yarn and npx resolves to what the project's
\* direct binaries alone determine, whatever the catalog, the user default and the
\* platform pin: Project(local binary directory/name) when the session has a project
\* that declares the name, NotInstalled otherwise.
ThirdPartyDependsOnProjectOnly ==
    \A name \in StrNames \ ReservedNames :
        Listed(name) =>
            ResolvedAs(name) = {ThirdPartyTarget(session.project, name)}

\* a declared binary was resolved in a session with a pin, a user default and a
\* catalog that holds versions
ThirdPartyWitness ==
    /\ Listed("a")
    /\ session.platform # None
    /\ session.user_node # None
    /\ session.catalog.node # {}
    /\ session.catalog.yarn.default # None
    /\ \E k \in ResolvedAs("a") : k.kind = "Project"

\* C7 (as claimed): for node, npm and yarn the variant of a user default, User, is
\* returned only without a platform pin, so a pinned and installed version never
\* resolves to it.
PinnedDistinctFromUserDefault ==
    \A name \in {"node", "npm", "yarn"} :
        Listed(name) =>
            \A k \in ResolvedAs(name) : k.kind = "User" => session.platform = None

\* C8 (as claimed): resolving the entries of the directory ends in a ShimKind for
\* each or in an error returned to the caller, never in a panic.
ResolveNeverAborts ==
    call.op = "list" => result.status \in {"Ok", "Err"}

\* C9: list returns Ok and prints exactly the names whose latest successful
\* lifecycle call was a create; a name is among them right after its create (by
\* create or autoshim) succeeds and no longer right after its delete succeeds; list
\* changes no entry; in verbose mode each line shows the resolution of the name in
\* the session of that list call.
ListIsLive ==
    [][ /\ call'.op = "list" =>
            /\ result' = Ok
            /\ shims' = shims
            /\ {l.name : l \in printed'} = live'
            /\ call'.verbose =>
                 printed' =
                    {[name |-> f,
                      line |-> f \o " -> " \o ShimKind_fmt(resolve_shim(session', f).value)] :
                        f \in live'}
            /\ ~call'.verbose => printed' = {[name |-> f, line |-> f] : f \in live'}
        /\ (call'.op = "create" /\ result' = Ok) =>
              call'.name \in live' /\ live' = live \cup {call'.name}
        /\ (call'.op = "delete" /\ result' = Ok) =>
              call'.name \notin live' /\ live' = live \ {call'.name}
        /\ (call'.op = "auto" /\ result'.type # "NotAPackageError") =>
              /\ BinNames(AutoRoot(call'.path)[1].bins) \subseteq live'
              /\ live \subseteq live'
        /\ (call'.op \in {"create", "delete"} /\ result' # Ok) => live' = live
        /\ live' = shims'
      ]_vars

\* a verbose list of a directory from which b was deleted and in which a remains
ListIsLiveWitness ==
    /\ call.op = "list"
    /\ call.verbose
    /\ "a" \in live
    /\ "b" \notin live
    /\ session.project # None
    /\ \E l \in printed : l.name = "a"

\* C10: npx resolves to Unimplemented in every session, and the resolution returns.
NpxUnimplemented ==
    Listed("npx") =>
        /\ result = Ok
        /\ ResolvedAs("npx") = {ShimKind_Unimplemented}

\* npx was resolved in a session with a project that pins an installed node
NpxWitness ==
    /\ Listed("npx")
    /\ session.platform # None
    /\ session.platform[1].node \in session.catalog.node
    /\ ResolvedAs("npx") # {}

====
